---- MODULE Spec2Model ----
(***************************************************************************)
(* A model of attention-mcp: the AttentionClient wrapper                   *)
(* (attention_client.py) and the MCP tool dispatcher with its formatters   *)
(* (server.py).                                                            *)
(*                                                                         *)
(* Python / JSON values are tagged records:                                *)
(*   None  [py |-> "None"]          str   [py |-> "str",  s |-> "..."]     *)
(*   int   [py |-> "int", n |-> 1]  list  [py |-> "list", elems |-> <<>>]  *)
(*   dict  [py |-> "dict", items |-> << <<key, value>>, ... >>]            *)
(* A dict keeps its insertion order, as Python's does.  A function that    *)
(* may raise returns Ok(value) or Raise(type, message).                    *)
(***************************************************************************)
EXTENDS Integers, Sequences, FiniteSets, TLC

VARIABLES
    \* ---- format_transcript applied to one transcript value
    tr_in,        \* the transcript argument
    tr_pc,        \* "input" | "done"
    tr_lines,     \* the turns the segment loop appended to `lines`
    tr_out,       \* the returned text
    \* ---- format_search_results / format_conversation applied to one result
    fm_in,        \* the result argument (parsed JSON)
    fm_pc,        \* "input" | "search" | "conversation"
    fm_lines,     \* the formatter's `lines` before the final join
    fm_out,       \* Ok(text) or Raise(type, msg)
    \* ---- the process: environment, heap, dispatcher
    environ,      \* os.environ, as a dict
    clients,      \* every AttentionClient constructed: <<[api_key, conn]>>
    conns,        \* every httpx.Client created: <<"open" | "closed">>
    requests,     \* every GET issued: <<[conn, path]>>
    _client,      \* server.py's global: 0 for None, else an index of clients
    pc,           \* where the running call_tool invocation is
    name,         \* its tool name
    arguments,    \* its argument bag
    result,       \* the client call's return value
    exc,          \* the exception in flight: <<>> or <<[type, msg]>>
    returned,     \* what the invocation returned: <<>> or <<TextContent>>
    escaped,      \* an exception that left call_tool: <<>> or <<[type, msg]>>
    attempts,     \* AttentionClient() calls made by get_client
    calls,        \* invocations started
    \* ---- a caller using the client as a context manager
    sc_pc,        \* "start" | "body" | "raising" | "left" | "failed"
    sc_key,       \* the api_key argument
    sc_client,    \* 0, or the index in clients of the scope's client
    sc_exc        \* the exception leaving the with statement, if any

vars == <<tr_in, tr_pc, tr_lines, tr_out, fm_in, fm_pc, fm_lines, fm_out,
          environ, clients, conns, requests, _client, pc, name, arguments,
          result, exc, returned, escaped, attempts, calls,
          sc_pc, sc_key, sc_client, sc_exc>>

trVars == <<tr_in, tr_pc, tr_lines, tr_out>>
fmVars == <<fm_in, fm_pc, fm_lines, fm_out>>
heapVars == <<clients, conns, requests>>
srvVars == <<_client, pc, name, arguments, result, exc, returned, escaped,
             attempts, calls>>
scVars == <<sc_pc, sc_key, sc_client, sc_exc>>

----------------------------------------------------------------------------
(* Bounds of the model. *)

MaxSegs == 4      \* segments in a transcript list
MaxCalls == 3     \* tool invocations in a run
MaxScopeReqs == 2 \* requests made inside one with block
MaxParts == 4     \* participants of a conversation

----------------------------------------------------------------------------
(* Python values. *)

PyNone == [py |-> "None"]
PyStr(s) == [py |-> "str", s |-> s]
PyInt(n) == [py |-> "int", n |-> n]
PyList(elems) == [py |-> "list", elems |-> elems]
PyDict(items) == [py |-> "dict", items |-> items]
EmptyDict == PyDict(<<>>)
EmptyList == PyList(<<>>)

Ok(v) == [raised |-> FALSE, value |-> v, type |-> "", msg |-> ""]
Raise(type, msg) == [raised |-> TRUE, value |-> "", type |-> type, msg |-> msg]

\* The rest of a computation after a step that may raise: the exception
\* goes on unchanged, a value is handed to rest.
Try(r, rest(_)) == IF r.raised THEN r ELSE rest(r.value)

\* x.get(...) on a value that is no dict
NoGet(v) ==
    Raise("AttributeError",
          "'" \o (IF v.py = "None" THEN "NoneType" ELSE v.py) \o "' object has no attribute 'get'")

\* bool(v)
Truthy(v) ==
    CASE v.py = "None" -> FALSE
      [] v.py = "str" -> v.s # ""
      [] v.py = "int" -> v.n # 0
      [] v.py = "list" -> v.elems # <<>>
      [] v.py = "dict" -> v.items # <<>>
      [] OTHER -> TRUE

\* `a or b`
Or(a, b) == IF Truthy(a) THEN a ELSE b

\* `k in d`
Has(d, k) == \E i \in 1..Len(d.items) : d.items[i][1] = k

\* d.get(k, default)
Get(d, k, default) ==
    IF Has(d, k)
    THEN d.items[CHOOSE i \in 1..Len(d.items) : d.items[i][1] = k][2]
    ELSE default

DigitChars == <<"0", "1", "2", "3", "4", "5", "6", "7", "8", "9">>

RECURSIVE NatStr(_)
NatStr(n) == IF n < 10 THEN DigitChars[n + 1]
             ELSE NatStr(n \div 10) \o DigitChars[(n % 10) + 1]

\* str(n)
IntStr(n) == IF n < 0 THEN "-" \o NatStr(-n) ELSE NatStr(n)

\* What an f-string shows for a value: f"{v}"
PyFormat(v) ==
    CASE v.py = "None" -> "None"
      [] v.py = "str" -> v.s
      [] v.py = "int" -> IntStr(v.n)
      [] OTHER -> "<" \o v.py \o ">"

\* sep.join(strs)
RECURSIVE JoinStr(_, _)
JoinStr(strs, sep) ==
    IF strs = <<>> THEN ""
    ELSE IF Len(strs) = 1 THEN strs[1]
    ELSE strs[1] \o sep \o JoinStr(Tail(strs), sep)

\* A string from its characters.
RECURSIVE Str(_)
Str(chars) == IF chars = <<>> THEN "" ELSE Head(chars) \o Str(Tail(chars))

\* The characters of the strings the code inspects character by character:
\* word tokens (str.strip) and createdAt values (str.replace, fromisoformat).
Chars(s) ==
    CASE s = "" -> <<>>
      [] s = " " -> <<" ">>
      [] s = "Hi" -> <<"H", "i">>
      [] s = " there " -> <<" ", "t", "h", "e", "r", "e", " ">>
      [] s = "Hello" -> <<"H", "e", "l", "l", "o">>
      [] s = "2024-01-15T10:30:00Z" ->
            <<"2", "0", "2", "4", "-", "0", "1", "-", "1", "5", "T",
              "1", "0", ":", "3", "0", ":", "0", "0", "Z">>
      [] s = "2024-01-15T10:30:00+02:00" ->
            <<"2", "0", "2", "4", "-", "0", "1", "-", "1", "5", "T",
              "1", "0", ":", "3", "0", ":", "0", "0",
              "+", "0", "2", ":", "0", "0">>
      [] s = "2024-02-29 23:59" ->
            <<"2", "0", "2", "4", "-", "0", "2", "-", "2", "9", " ",
              "2", "3", ":", "5", "9">>
      [] s = "2024-01-15" ->
            <<"2", "0", "2", "4", "-", "0", "1", "-", "1", "5">>
      [] s = "2023-02-29T10:30:00Z" ->
            <<"2", "0", "2", "3", "-", "0", "2", "-", "2", "9", "T",
              "1", "0", ":", "3", "0", ":", "0", "0", "Z">>
      [] s = "2024-01-15T10:60:00Z" ->
            <<"2", "0", "2", "4", "-", "0", "1", "-", "1", "5", "T",
              "1", "0", ":", "6", "0", ":", "0", "0", "Z">>
      [] s = "not-a-date" ->
            <<"n", "o", "t", "-", "a", "-", "d", "a", "t", "e">>
      [] s = "Z" -> <<"Z">>

----------------------------------------------------------------------------
(* server.py: format_transcript *)

Whitespace == {" ", "\n", "\t", "\r"}

RECURSIVE LStrip(_)
LStrip(cs) == IF cs # <<>> /\ Head(cs) \in Whitespace THEN LStrip(Tail(cs)) ELSE cs

RECURSIVE RStrip(_)
RStrip(cs) == IF cs # <<>> /\ cs[Len(cs)] \in Whitespace
              THEN RStrip(SubSeq(cs, 1, Len(cs) - 1)) ELSE cs

\* str.strip()
StripChars(cs) == RStrip(LStrip(cs))

\* "".join(w.get("text", "") for w in words), as characters
RECURSIVE JoinWordChars(_)
JoinWordChars(words) ==
    IF words = <<>> THEN <<>>
    ELSE Chars(Get(Head(words), "text", PyStr("")).s) \o JoinWordChars(Tail(words))

\* speaker_info.get("name") or speaker_info.get("email", "Unknown")
SpeakerName(segment) ==
    LET speaker_info == Get(segment, "speaker", EmptyDict)
    IN Or(Get(speaker_info, "name", PyNone),
          Get(speaker_info, "email", PyStr("Unknown")))

\* "".join(...).strip()
SegmentText(segment) ==
    Str(StripChars(JoinWordChars(Get(segment, "words", EmptyList).elems)))

\* f"**{current_speaker}:** {' '.join(current_text)}"
TurnLine(speaker, texts) ==
    "**" \o PyFormat(speaker) \o ":** " \o JoinStr(texts, " ")

\* The state the segment loop starts from.
LoopStart == [lines |-> <<>>, current_speaker |-> PyNone, current_text |-> <<>>]

\* `if current_speaker and current_text: lines.append(...)`
Flush(st) ==
    IF Truthy(st.current_speaker) /\ st.current_text # <<>>
    THEN Append(st.lines, [speaker |-> st.current_speaker, texts |-> st.current_text])
    ELSE st.lines

\* One iteration of `for segment in transcript`.
SegmentStep(st, segment) ==
    LET speaker_name == SpeakerName(segment)
        segment_text == SegmentText(segment)
    IN IF segment_text = "" THEN st
       ELSE IF speaker_name = st.current_speaker
       THEN [st EXCEPT !.current_text = Append(@, segment_text)]
       ELSE [lines |-> Flush(st),
             current_speaker |-> speaker_name,
             current_text |-> <<segment_text>>]

RECURSIVE SegmentLoop(_, _)
SegmentLoop(st, segments) ==
    IF segments = <<>> THEN st
    ELSE SegmentLoop(SegmentStep(st, Head(segments)), Tail(segments))

\* The turns `lines` holds when the loop and the last flush are over.
TranscriptTurns(segments) == Flush(SegmentLoop(LoopStart, segments))

NoTranscript == "*No transcript available*"

\* "\n\n".join(lines) if lines else placeholder
RenderTurns(turns) ==
    IF turns = <<>> THEN NoTranscript
    ELSE JoinStr([i \in 1..Len(turns) |-> TurnLine(turns[i].speaker, turns[i].texts)],
                 "\n\n")

\* The dict branch's "segments" rendering.
SegmentDictLines(segments) ==
    [i \in 1..Len(segments) |->
        "**" \o PyFormat(Get(segments[i], "speaker", PyStr("Unknown")))
             \o ":** " \o PyFormat(Get(segments[i], "text", PyStr("")))]

\* json.dumps(transcript, indent=2) of a flat dict of strings
JsonDumps(d) ==
    "{\n" \o JoinStr([i \in 1..Len(d.items) |->
                        "  \"" \o d.items[i][1] \o "\": \"" \o PyFormat(d.items[i][2]) \o "\""],
                     ",\n") \o "\n}"

format_transcript(transcript) ==
    IF ~Truthy(transcript) THEN NoTranscript
    ELSE IF transcript.py = "str" THEN transcript.s
    ELSE IF transcript.py = "list" THEN RenderTurns(TranscriptTurns(transcript.elems))
    ELSE IF transcript.py = "dict" THEN
        IF Has(transcript, "text") THEN PyFormat(Get(transcript, "text", PyNone))
        ELSE IF Has(transcript, "segments")
        THEN JoinStr(SegmentDictLines(Get(transcript, "segments", EmptyList).elems), "\n\n")
        ELSE JsonDumps(transcript)
    ELSE PyFormat(transcript)

----------------------------------------------------------------------------
(* The date rule shared by format_search_results and format_conversation. *)

IsDigit(c) == \E i \in 1..10 : DigitChars[i] = c

DigitVal(c) == (CHOOSE i \in 1..10 : DigitChars[i] = c) - 1

AllDigits(cs) == \A i \in 1..Len(cs) : IsDigit(cs[i])

RECURSIVE NumVal(_)
NumVal(cs) == IF cs = <<>> THEN 0
              ELSE NumVal(SubSeq(cs, 1, Len(cs) - 1)) * 10 + DigitVal(cs[Len(cs)])

\* created.replace("Z", "+00:00"): every "Z", not only a trailing one
RECURSIVE ReplaceZ(_)
ReplaceZ(cs) ==
    IF cs = <<>> THEN <<>>
    ELSE (IF Head(cs) = "Z" THEN <<"+", "0", "0", ":", "0", "0">> ELSE <<Head(cs)>>)
         \o ReplaceZ(Tail(cs))

IsLeap(y) == (y % 4 = 0 /\ y % 100 # 0) \/ y % 400 = 0

DaysInMonth(y, m) ==
    IF m = 2 THEN (IF IsLeap(y) THEN 29 ELSE 28)
    ELSE IF m \in {4, 6, 9, 11} THEN 30 ELSE 31

\* YYYY-MM-DD, a date of the calendar
IsIsoDate(cs) ==
    /\ Len(cs) = 10
    /\ AllDigits(SubSeq(cs, 1, 4)) /\ cs[5] = "-"
    /\ AllDigits(SubSeq(cs, 6, 7)) /\ cs[8] = "-"
    /\ AllDigits(SubSeq(cs, 9, 10))
    /\ NumVal(SubSeq(cs, 1, 4)) >= 1
    /\ NumVal(SubSeq(cs, 6, 7)) \in 1..12
    /\ NumVal(SubSeq(cs, 9, 10)) \in
           1..DaysInMonth(NumVal(SubSeq(cs, 1, 4)), NumVal(SubSeq(cs, 6, 7)))

\* HH, HH:MM or HH:MM:SS
IsIsoClock(cs) ==
    /\ Len(cs) \in {2, 5, 8}
    /\ AllDigits(SubSeq(cs, 1, 2)) /\ NumVal(SubSeq(cs, 1, 2)) < 24
    /\ Len(cs) >= 5 =>
          cs[3] = ":" /\ AllDigits(SubSeq(cs, 4, 5)) /\ NumVal(SubSeq(cs, 4, 5)) < 60
    /\ Len(cs) = 8 =>
          cs[6] = ":" /\ AllDigits(SubSeq(cs, 7, 8)) /\ NumVal(SubSeq(cs, 7, 8)) < 60

\* +HH:MM or -HH:MM
IsIsoOffset(cs) ==
    /\ Len(cs) = 6
    /\ cs[1] \in {"+", "-"}
    /\ AllDigits(SubSeq(cs, 2, 3)) /\ NumVal(SubSeq(cs, 2, 3)) < 24
    /\ cs[4] = ":"
    /\ AllDigits(SubSeq(cs, 5, 6)) /\ NumVal(SubSeq(cs, 5, 6)) < 60

\* Where the UTC offset of a time string starts (0: it has none).
OffsetPos(ts) ==
    IF \E i \in 1..Len(ts) : ts[i] \in {"+", "-"}
    THEN CHOOSE i \in 1..Len(ts) :
            /\ ts[i] \in {"+", "-"}
            /\ \A j \in 1..(i - 1) : ts[j] \notin {"+", "-"}
    ELSE 0

ClockPart(ts) == IF OffsetPos(ts) = 0 THEN ts ELSE SubSeq(ts, 1, OffsetPos(ts) - 1)

\* Whether datetime.fromisoformat accepts the string (the date, then
\* optionally one separator character, a clock time and a UTC offset);
\* otherwise it raises ValueError.  Fractional seconds are not modelled.
IsIso(cs) ==
    /\ Len(cs) >= 10
    /\ IsIsoDate(SubSeq(cs, 1, 10))
    /\ Len(cs) > 10 =>
          LET ts == SubSeq(cs, 12, Len(cs))
          IN /\ IsIsoClock(ClockPart(ts))
             /\ OffsetPos(ts) # 0 => IsIsoOffset(SubSeq(ts, OffsetPos(ts), Len(ts)))

\* The fields of the datetime fromisoformat returns.
ParseIso(cs) ==
    LET ts == IF Len(cs) > 10 THEN ClockPart(SubSeq(cs, 12, Len(cs))) ELSE <<>>
    IN [year |-> NumVal(SubSeq(cs, 1, 4)),
        month |-> NumVal(SubSeq(cs, 6, 7)),
        day |-> NumVal(SubSeq(cs, 9, 10)),
        hour |-> IF Len(ts) >= 2 THEN NumVal(SubSeq(ts, 1, 2)) ELSE 0,
        minute |-> IF Len(ts) >= 5 THEN NumVal(SubSeq(ts, 4, 5)) ELSE 0]

\* n in decimal, zero-padded to w digits
RECURSIVE Pad(_, _)
Pad(n, w) == IF Len(NatStr(n)) >= w THEN NatStr(n)
             ELSE "0" \o Pad(n, w - 1)

\* dt.strftime("%Y-%m-%d %H:%M")
Strftime(dt) ==
    Pad(dt.year, 4) \o "-" \o Pad(dt.month, 2) \o "-" \o Pad(dt.day, 2)
        \o " " \o Pad(dt.hour, 2) \o ":" \o Pad(dt.minute, 2)

\* The except clause of the date block: what it catches.
DateExceptCatches(type) == type \in {"ValueError", "TypeError"}

\* created.replace("Z", "+00:00"), then datetime.fromisoformat(...): the
\* datetime, or the exception raised on the way.
TryParseDate(created) ==
    IF created.py # "str"
    THEN Raise("AttributeError",
               "'" \o created.py \o "' object has no attribute 'replace'")
    ELSE IF IsIso(ReplaceZ(Chars(created.s)))
    THEN Ok(ParseIso(ReplaceZ(Chars(created.s))))
    ELSE Raise("ValueError", "Invalid isoformat string")

\* `if created: try: ... except (ValueError, TypeError): pass`: the value the
\* Date line shows, or the exception the block lets through.
DateOutcome(created, r) ==
    IF ~r.raised THEN Ok(PyStr(Strftime(r.value)))
    ELSE IF DateExceptCatches(r.type) THEN Ok(created)
    ELSE r

FormatDate(created) ==
    IF ~Truthy(created) THEN Ok(created)
    ELSE DateOutcome(created, TryParseDate(created))

----------------------------------------------------------------------------
(* server.py: format_search_results *)

\* p.get("name") or p.get("email", "Unknown")
ParticipantName(p) == Or(Get(p, "name", PyNone), Get(p, "email", PyStr("Unknown")))

\* sep.join(values): TypeError unless every item is a str
JoinValues(values, sep) ==
    IF \E i \in 1..Len(values) : values[i].py # "str"
    THEN LET i == CHOOSE i \in 1..Len(values) :
                     /\ values[i].py # "str"
                     /\ \A j \in 1..(i - 1) : values[j].py = "str"
         IN Raise("TypeError",
                  "sequence item " \o IntStr(i - 1) \o ": expected str instance, "
                      \o (IF values[i].py = "None" THEN "NoneType" ELSE values[i].py)
                      \o " found")
    ELSE Ok(JoinStr([i \in 1..Len(values) |-> values[i].s], sep))

\* The participants line of one search hit: the first three names, then
\* " (+N more)".
ParticipantStr(participants) ==
    Try(JoinValues([i \in 1..(IF Len(participants) > 3 THEN 3 ELSE Len(participants)) |->
                       ParticipantName(participants[i])], ", "),
        LAMBDA joined :
            IF Len(participants) > 3
            THEN Ok(joined \o " (+" \o IntStr(Len(participants) - 3) \o " more)")
            ELSE Ok(joined))

\* conv.get("id", attrs.get("uuid", "unknown"))
SearchConvId(conv) ==
    Get(conv, "id", Get(Get(conv, "attributes", EmptyDict), "uuid", PyStr("unknown")))

\* The lines one conversation adds in the loop of format_search_results.
SummaryLines(conv, attrs) ==
    Try(FormatDate(Get(attrs, "createdAt", PyStr(""))), LAMBDA created :
    Try(ParticipantStr(Get(attrs, "participants", EmptyList).elems), LAMBDA participant_str :
        Ok(<<"- **" \o PyFormat(Get(attrs, "title", PyStr("Untitled"))) \o "**",
             "  ID: " \o PyFormat(SearchConvId(conv)),
             "  Date: " \o PyFormat(created),
             "  Participants: " \o participant_str,
             "">>)))

ConvLines(conv) ==
    IF conv.py # "dict" THEN NoGet(conv)
    ELSE SummaryLines(conv, Get(conv, "attributes", EmptyDict))

RECURSIVE AllConvLines(_)
AllConvLines(data) ==
    IF data = <<>> THEN Ok(<<>>)
    ELSE Try(ConvLines(Head(data)), LAMBDA first :
         Try(AllConvLines(Tail(data)), LAMBDA rest : Ok(first \o rest)))

\* `for conv in data`: the items of a list, the keys of a dict
Iterate(data) ==
    IF data.py = "dict" THEN [i \in 1..Len(data.items) |-> PyStr(data.items[i][1])]
    ELSE data.elems

\* f"Found {meta.get('totalRecords', len(data))} conversations:\n"
SearchHeader(data, meta) ==
    "Found " \o PyFormat(Get(meta, "totalRecords", PyInt(Len(Iterate(data)))))
             \o " conversations:\n"

\* The pagination footer: the lines appended after the loop.
SearchFooter(meta) ==
    IF Get(meta, "pageCount", PyInt(1)).n > 1
    THEN <<"\nPage " \o PyFormat(Get(meta, "pageNumber", PyInt(1))) \o " of "
                     \o PyFormat(Get(meta, "pageCount", PyNone))>>
    ELSE <<>>

\* A plausible slip: the pagination footer added to the empty answer too.
SearchLinesFooterOnEmpty(res) ==
    LET data == Get(res, "data", EmptyList)
        meta == Get(res, "meta", EmptyDict)
    IN IF ~Truthy(data) THEN Ok(<<"No conversations found.">> \o SearchFooter(meta))
       ELSE Try(AllConvLines(Iterate(data)), LAMBDA convs :
                Ok(<<SearchHeader(data, meta)>> \o convs \o SearchFooter(meta)))

\* `lines` of format_search_results, or the exception raised while building it
SearchLines(res) ==
    LET data == Get(res, "data", EmptyList)
        meta == Get(res, "meta", EmptyDict)
    IN IF ~Truthy(data) THEN Ok(<<"No conversations found.">>)
       ELSE Try(AllConvLines(Iterate(data)), LAMBDA convs :
                Ok(<<SearchHeader(data, meta)>> \o convs \o SearchFooter(meta)))

format_search_results(res) ==
    Try(SearchLines(res), LAMBDA lines : Ok(JoinStr(lines, "\n")))

----------------------------------------------------------------------------
(* server.py: format_conversation *)

\* attrs: top-level "attributes", else the ones nested under "data"
ConvAttrs(res) ==
    LET attrs == Get(res, "attributes", EmptyDict)
        data == Get(res, "data", EmptyDict)
    IN IF Truthy(attrs) THEN Ok(attrs)
       ELSE IF data.py # "dict" THEN NoGet(data)
       ELSE Ok(Get(data, "attributes", EmptyDict))

\* attrs.get("uuid", result.get("id", "unknown"))
DetailConvId(res, attrs) ==
    Get(attrs, "uuid", Get(res, "id", PyStr("unknown")))

\* One line of the Participants section.
ParticipantLine(p) ==
    LET pname == ParticipantName(p)
        email == Get(p, "email", PyStr(""))
    IN IF Truthy(email) /\ pname # email
       THEN "  - " \o PyFormat(pname) \o " (" \o PyFormat(email) \o ")"
       ELSE "  - " \o PyFormat(pname)

\* A plausible slip: the two mappings merged, confirmed entries first.
ChosenIntelligenceMerged(attrs) ==
    PyDict(Or(Get(attrs, "confirmedExtractedIntelligence", EmptyDict), EmptyDict).items
               \o Or(Get(attrs, "extractedIntelligence", EmptyDict), EmptyDict).items)

\* attrs.get("confirmedExtractedIntelligence", {}) or attrs.get("extractedIntelligence", {})
ChosenIntelligence(attrs) ==
    Or(Get(attrs, "confirmedExtractedIntelligence", EmptyDict),
       Get(attrs, "extractedIntelligence", EmptyDict))

\* The lines one entry of the intelligence mapping adds to intel_lines.
IntelEntryLines(key, item) ==
    IF item.py = "dict"
    THEN LET intel_value == Get(item, "value", PyStr(""))
         IN IF Truthy(intel_value)
            THEN <<"### " \o PyFormat(Get(item, "title", PyStr(key))),
                   PyFormat(intel_value), "">>
            ELSE <<>>
    ELSE IF Truthy(item) THEN <<"  - " \o key \o ": " \o PyFormat(item)>>
    ELSE <<>>

RECURSIVE IntelLines(_)
IntelLines(items) ==
    IF items = <<>> THEN <<>>
    ELSE IntelEntryLines(Head(items)[1], Head(items)[2]) \o IntelLines(Tail(items))

\* The Extracted Intelligence section: `if intel_lines: ...`
IntelSection(intel_lines) ==
    IF intel_lines # <<>> THEN <<"", "## Extracted Intelligence">> \o intel_lines ELSE <<>>

\* intel_lines of the chosen mapping: `if intelligence: for key, item in ...`
IntelLinesOf(intelligence) ==
    IF Truthy(intelligence) THEN IntelLines(intelligence.items) ELSE <<>>

\* `lines` of format_conversation once attrs is found
DetailLines(res, attrs) ==
    Try(FormatDate(Get(attrs, "createdAt", PyStr(""))), LAMBDA created :
        Ok(<<"# " \o PyFormat(Get(attrs, "title", PyStr("Untitled"))),
             "",
             "**ID:** " \o PyFormat(DetailConvId(res, attrs)),
             "**Date:** " \o PyFormat(created),
             "**Video Status:** " \o PyFormat(Get(attrs, "videoStatus", PyStr("Unknown"))),
             "",
             "## Participants">>
           \o [i \in 1..Len(Get(attrs, "participants", EmptyList).elems) |->
                  ParticipantLine(Get(attrs, "participants", EmptyList).elems[i])]
           \o IntelSection(IntelLinesOf(ChosenIntelligence(attrs)))
           \o <<"", "## Transcript", "",
                format_transcript(Get(attrs, "transcript", EmptyDict))>>))

\* `lines` of format_conversation, or the exception raised while building it
ConversationLines(res) ==
    Try(ConvAttrs(res), LAMBDA attrs : DetailLines(res, attrs))

format_conversation(res) ==
    Try(ConversationLines(res), LAMBDA lines : Ok(JoinStr(lines, "\n")))

----------------------------------------------------------------------------
(* attention_client.py: AttentionClient *)

Exc(type, msg) == [type |-> type, msg |-> msg]

\* What a call on the heap gives back: the new heap, with either the index of
\* the object made or the exception raised.
HeapOk(cl, cn, obj) == [raised |-> FALSE, clients |-> cl, conns |-> cn, obj |-> obj,
                        type |-> "", msg |-> ""]
HeapRaise(cl, cn, type, msg) == [raised |-> TRUE, clients |-> cl, conns |-> cn, obj |-> 0,
                                 type |-> type, msg |-> msg]

\* A plausible slip: the httpx.Client is made before the key is checked.
AttentionClientInitConnFirst(api_key, env, cl, cn) ==
    LET key == Or(api_key, Get(env, "ATTENTION_API_KEY", PyNone))
    IN IF ~Truthy(key)
       THEN HeapRaise(cl, Append(cn, "open"), "ValueError", "ATTENTION_API_KEY must be set")
       ELSE HeapOk(Append(cl, [api_key |-> key, conn |-> Len(cn) + 1]),
                   Append(cn, "open"), Len(cl) + 1)

\* AttentionClient.__init__(api_key) on the heap (cl, cn) under os.environ env
AttentionClientInit(api_key, env, cl, cn) ==
    LET key == Or(api_key, Get(env, "ATTENTION_API_KEY", PyNone))
    IN IF ~Truthy(key)
       THEN HeapRaise(cl, cn, "ValueError", "ATTENTION_API_KEY must be set")
       ELSE HeapOk(Append(cl, [api_key |-> key, conn |-> Len(cn) + 1]),
                   Append(cn, "open"), Len(cl) + 1)

\* AttentionClient.close(): self.client.close()
Close(self, cl, cn) == [cn EXCEPT ![cl[self].conn] = "closed"]

\* A plausible slip: __exit__ closes only when the block ended normally.
ExitOnlyOnSuccess(self, exc_val, cl, cn) ==
    IF exc_val = <<>> THEN Close(self, cl, cn) ELSE cn

\* AttentionClient.__exit__(exc_type, exc_val, exc_tb): self.close()
Exit(self, exc_val, cl, cn) == Close(self, cl, cn)

\* The path a client method requests.
RequestPath(method, args) ==
    IF method = "get_conversation"
    THEN "/conversations/" \o PyFormat(Get(args, "conversation_id", PyNone))
    ELSE "/conversations"

\* self.client.get(path, params=...): the request as the transport sees it
Request(self, path, cl) == [conn |-> cl[self].conn, path |-> path]

\* httpx refuses to send on a closed client.
ClosedError == Exc("RuntimeError", "Cannot send a request, as the client has been closed.")

----------------------------------------------------------------------------
(* What the upstream service may answer. *)

Part(i) == PyDict(<< <<"name", PyStr("P" \o IntStr(i))>>,
                     <<"email", PyStr("p" \o IntStr(i) \o "@example.com")>> >>)

Conv(id, attrs) == PyDict(<< <<"id", PyStr(id)>>, <<"attributes", PyDict(attrs)>> >>)

GoodConv == Conv("c-1", << <<"title", PyStr("Demo")>>,
                           <<"createdAt", PyStr("2024-01-15T10:30:00Z")>>,
                           <<"participants", PyList(<<Part(1)>>)>> >>)

\* createdAt sent as a number (epoch seconds)
EpochConv == Conv("c-2", << <<"title", PyStr("Demo")>>, <<"createdAt", PyInt(1705314600)>> >>)

\* a participant whose name and email are both null
NullPartConv == Conv("c-3", << <<"participants",
                    PyList(<< PyDict(<< <<"name", PyNone>>, <<"email", PyNone>> >>) >>)>> >>)

SearchResponses ==
    { Ok(PyDict(<< <<"data", EmptyList>>, <<"meta", EmptyDict>> >>)),
      Ok(PyDict(<< <<"data", PyList(<<GoodConv>>)>> >>)),
      Ok(PyDict(<< <<"data", PyList(<<GoodConv, EpochConv>>)>> >>)),
      Ok(PyDict(<< <<"data", PyList(<<NullPartConv>>)>> >>)),
      Raise("HTTPStatusError", "Server error '500 Internal Server Error' for url '/conversations'"),
      Raise("ConnectTimeout", "timed out") }

DetailResponses ==
    { Ok(GoodConv),
      Ok(PyDict(<< <<"data", GoodConv>> >>)),
      Ok(EpochConv),
      Raise("HTTPStatusError", "Client error '404 Not Found' for url '/conversations/c-1'") }

ToolNames == {"search_conversations", "get_conversation",
              "list_recent_conversations", "delete_conversation"}

ArgumentBags ==
    { EmptyDict,
      PyDict(<< <<"conversation_id", PyStr("c-1")>> >>),
      PyDict(<< <<"query", PyStr("demo")>>, <<"size", PyInt(5)>> >>) }

Environs ==
    { EmptyDict,
      PyDict(<< <<"ATTENTION_API_KEY", PyStr("")>> >>),
      PyDict(<< <<"ATTENTION_API_KEY", PyStr("sk-env")>> >>) }

----------------------------------------------------------------------------
(* server.py: get_client and call_tool.  call_tool holds no await, so one   *)
(* invocation runs to its return before the event loop starts the next.    *)

\* `_client = AttentionClient()`: the global is assigned only if the
\* constructor returns.
KeepOnRaise(client, made) == [made EXCEPT !.obj = IF made.raised THEN client ELSE made.obj]

\* A plausible slip: the `if _client is None` test left out.
GetClientAlwaysNew(client, env, cl, cn) ==
    KeepOnRaise(client, AttentionClientInit(PyNone, env, cl, cn))

\* get_client() with the global at `client`: the heap after it, the global's
\* new value in obj, or the exception AttentionClient() raised
GetClient(client, env, cl, cn) ==
    IF client = 0
    THEN KeepOnRaise(client, AttentionClientInit(PyNone, env, cl, cn))
    ELSE HeapOk(cl, cn, client)

\* The classes `except Exception` catches, among those raised here.
ExceptionClasses == {"ValueError", "KeyError", "AttributeError", "TypeError",
                     "RuntimeError", "HTTPStatusError", "ConnectTimeout"}

\* A plausible slip: a handler that names the client's errors only.
CatchesClientErrors(type) == type \in {"ValueError", "HTTPStatusError", "ConnectTimeout"}

\* `except Exception as e`
Catches(type) == type \in ExceptionClasses

TextContent(text) == [type |-> "text", text |-> text]

\* The host calls call_tool(name, arguments).
Invoke(n, args) ==
    /\ pc = "idle"
    /\ calls < MaxCalls
    /\ pc' = "get_client"
    /\ name' = n
    /\ arguments' = args
    /\ calls' = calls + 1
    /\ result' = PyNone
    /\ exc' = <<>>
    /\ returned' = <<>>
    /\ UNCHANGED <<_client, escaped, attempts, environ, heapVars, trVars, fmVars, scVars>>

\* client = get_client()
CallGetClient ==
    /\ pc = "get_client"
    /\ \E got \in {GetClient(_client, environ, clients, conns)} :
          /\ clients' = got.clients
          /\ conns' = got.conns
          /\ _client' = got.obj
          /\ attempts' = IF Len(got.conns) # Len(conns) \/ got.raised
                         THEN attempts + 1 ELSE attempts
          /\ IF got.raised
             THEN exc' = <<Exc(got.type, got.msg)>> /\ pc' = "except"
             ELSE exc' = exc /\ pc' = "dispatch"
    /\ UNCHANGED <<name, arguments, result, returned, escaped, calls, requests,
                   environ, trVars, fmVars, scVars>>

\* A client method that sends one GET and returns response.json(), or raises.
ClientGet(method, responses) ==
    /\ pc = "dispatch"
    /\ name = method
    /\ IF conns[clients[_client].conn] = "closed"
       THEN /\ exc' = <<ClosedError>>
            /\ pc' = "except"
            /\ UNCHANGED <<requests, result>>
       ELSE /\ requests' = Append(requests,
                                  Request(_client, RequestPath(method, arguments), clients))
            /\ \E resp \in responses :
                  IF resp.raised
                  THEN exc' = <<Exc(resp.type, resp.msg)>> /\ pc' = "except"
                                                            /\ result' = result
                  ELSE result' = resp.value /\ pc' = "format" /\ exc' = exc
    /\ UNCHANGED <<_client, name, arguments, returned, escaped, attempts, calls,
                   clients, conns, environ, trVars, fmVars, scVars>>

\* name == "search_conversations"
CallSearch == ClientGet("search_conversations", SearchResponses)

\* name == "list_recent_conversations": delegates to search_conversations
CallListRecent == ClientGet("list_recent_conversations", SearchResponses)

\* name == "get_conversation", with arguments["conversation_id"]
CallGetConversation ==
    /\ Has(arguments, "conversation_id")
    /\ ClientGet("get_conversation", DetailResponses)

\* name == "get_conversation": arguments["conversation_id"] raises KeyError
CallGetConversationNoId ==
    /\ pc = "dispatch"
    /\ name = "get_conversation"
    /\ ~Has(arguments, "conversation_id")
    /\ exc' = <<Exc("KeyError", "'conversation_id'")>>
    /\ pc' = "except"
    /\ UNCHANGED <<_client, name, arguments, result, returned, escaped, attempts,
                   calls, environ, heapVars, trVars, fmVars, scVars>>

\* else: return "Unknown tool: {name}"
UnknownTool ==
    /\ pc = "dispatch"
    /\ name \notin {"search_conversations", "get_conversation", "list_recent_conversations"}
    /\ returned' = <<TextContent("Unknown tool: " \o name)>>
    /\ pc' = "returned"
    /\ UNCHANGED <<_client, name, arguments, result, exc, escaped, attempts,
                   calls, environ, heapVars, trVars, fmVars, scVars>>

\* return [TextContent(type="text", text=format_...(result))]
FormatResult ==
    /\ pc = "format"
    /\ \E out \in {IF name = "get_conversation"
                   THEN format_conversation(result)
                   ELSE format_search_results(result)} :
          IF out.raised
          THEN /\ exc' = <<Exc(out.type, out.msg)>>
               /\ pc' = "except"
               /\ returned' = returned
          ELSE /\ returned' = <<TextContent(out.value)>>
               /\ pc' = "returned"
               /\ exc' = exc
    /\ UNCHANGED <<_client, name, arguments, result, escaped, attempts, calls,
                   environ, heapVars, trVars, fmVars, scVars>>

\* except Exception as e: return [TextContent(type="text", text=f"Error: {str(e)}")]
HandleException ==
    /\ pc = "except"
    /\ IF Catches(exc[1].type)
       THEN returned' = <<TextContent("Error: " \o exc[1].msg)>> /\ escaped' = escaped
       ELSE escaped' = exc /\ returned' = returned
    /\ pc' = "returned"
    /\ UNCHANGED <<_client, name, arguments, result, exc, attempts, calls,
                   environ, heapVars, trVars, fmVars, scVars>>

\* The invocation is over; the event loop may start the next one.
Return ==
    /\ pc = "returned"
    /\ pc' = "idle"
    /\ UNCHANGED <<_client, name, arguments, result, exc, returned, escaped, attempts,
                   calls, environ, heapVars, trVars, fmVars, scVars>>

----------------------------------------------------------------------------
(* A caller of attention_client.py using the client as a context manager:  *)
(*     with AttentionClient(api_key) as c: <requests>                      *)

ApiKeys == {PyNone, PyStr(""), PyStr("sk-arg")}

ScopeMethods == {"search_conversations", "get_conversation"}

\* AttentionClient(api_key), then __enter__
ScopeOpen ==
    /\ sc_pc = "start"
    /\ \E made \in {AttentionClientInit(sc_key, environ, clients, conns)} :
          /\ clients' = made.clients
          /\ conns' = made.conns
          /\ sc_client' = made.obj
          /\ IF made.raised
             THEN sc_pc' = "failed" /\ sc_exc' = <<Exc(made.type, made.msg)>>
             ELSE sc_pc' = "body" /\ sc_exc' = sc_exc
    /\ UNCHANGED <<sc_key, requests, environ, srvVars, trVars, fmVars>>

\* A request inside the block that returns.
ScopeRequestOk(method) ==
    /\ sc_pc = "body"
    /\ Len(requests) < MaxScopeReqs
    /\ conns[clients[sc_client].conn] = "open"
    /\ requests' = Append(requests, Request(sc_client,
                            RequestPath(method, PyDict(<< <<"conversation_id", PyStr("c-1")>> >>)),
                            clients))
    /\ UNCHANGED <<scVars, clients, conns, environ, srvVars, trVars, fmVars>>

\* A request inside the block that raises (raise_for_status, a timeout).
ScopeRequestRaises(method) ==
    /\ sc_pc = "body"
    /\ Len(requests) < MaxScopeReqs
    /\ conns[clients[sc_client].conn] = "open"
    /\ requests' = Append(requests, Request(sc_client,
                            RequestPath(method, PyDict(<< <<"conversation_id", PyStr("c-1")>> >>)),
                            clients))
    /\ sc_pc' = "raising"
    /\ sc_exc' = <<Exc("HTTPStatusError", "Server error '500 Internal Server Error'")>>
    /\ UNCHANGED <<sc_key, sc_client, clients, conns, environ, srvVars, trVars, fmVars>>

\* The block ends, normally or by the exception in flight: __exit__ runs and,
\* returning None, lets the exception go on.
ScopeExit ==
    /\ sc_pc \in {"body", "raising"}
    /\ conns' = Exit(sc_client, sc_exc, clients, conns)
    /\ sc_pc' = "left"
    /\ UNCHANGED <<sc_key, sc_client, sc_exc, clients, requests, environ,
                   srvVars, trVars, fmVars>>

----------------------------------------------------------------------------
(* format_transcript on its own. *)

SpeakerBlocks ==
    { PyDict(<< <<"name", PyStr("A")>>, <<"email", PyStr("a@example.com")>> >>),
      PyDict(<< <<"name", PyStr("B")>> >>),
      PyDict(<< <<"name", PyStr("")>>, <<"email", PyStr("A")>> >>),
      EmptyDict,
      PyDict(<< <<"name", PyStr("")>>, <<"email", PyStr("")>> >>),
      PyDict(<< <<"name", PyNone>>, <<"email", PyNone>> >>) }

Word(text) == PyDict(<< <<"text", PyStr(text)>> >>)

WordLists ==
    { <<Word("Hi")>>,
      <<Word(" there "), Word(" ")>>,
      <<Word("Hello"), EmptyDict>>,
      <<Word(" "), Word(" ")>> }

Segments ==
    { PyDict(<< <<"speaker", sp>>, <<"words", PyList(ws)>> >>) :
          sp \in SpeakerBlocks, ws \in WordLists }

SegmentLists == UNION { [1..n -> Segments] : n \in 0..MaxSegs }

Transcripts ==
    { PyList(segs) : segs \in SegmentLists }
        \cup { PyNone, PyStr(""), PyStr("A: Hi"), EmptyDict,
               PyDict(<< <<"text", PyStr("flat text")>> >>),
               PyDict(<< <<"segments", PyList(<<
                    PyDict(<< <<"speaker", PyStr("A")>>, <<"text", PyStr("Hi")>> >>),
                    EmptyDict >>)>> >>),
               PyDict(<< <<"language", PyStr("en")>> >>),
               PyInt(7) }

ApplyFormatTranscript ==
    /\ tr_pc = "input"
    /\ tr_lines' = IF tr_in.py = "list" THEN TranscriptTurns(tr_in.elems) ELSE <<>>
    /\ tr_out' = format_transcript(tr_in)
    /\ tr_pc' = "done"
    /\ UNCHANGED <<tr_in, fmVars, environ, heapVars, srvVars, scVars>>

----------------------------------------------------------------------------
(* format_search_results and format_conversation on their own. *)

Opt(key, values) == {<<>>} \cup { << <<key, v>> >> : v \in values }

CreatedValues ==
    { PyNone, PyStr(""), PyInt(1705314600),
      PyStr("2024-01-15T10:30:00Z"), PyStr("2024-01-15T10:30:00+02:00"),
      PyStr("2024-02-29 23:59"), PyStr("2024-01-15"),
      PyStr("2023-02-29T10:30:00Z"), PyStr("2024-01-15T10:60:00Z"),
      PyStr("not-a-date"), PyStr("Z") }

ParticipantLists ==
    { PyList([i \in 1..n |-> Part(i)]) : n \in 0..MaxParts }
        \cup { PyList(<< PyDict(<< <<"email", PyStr("solo@example.com")>> >>), EmptyDict >>) }

SummaryBlock == PyDict(<< <<"title", PyStr("Summary")>>, <<"value", PyStr("Good call")>> >>)

ConfirmedValues ==
    { PyNone, EmptyDict,
      PyDict(<< <<"summary", SummaryBlock>> >>),
      PyDict(<< <<"summary", SummaryBlock>>, <<"risk", PyStr("high")>>, <<"blockers", PyStr("")>> >>),
      PyDict(<< <<"summary", PyDict(<< <<"title", PyStr("Summary")>>, <<"value", PyStr("")>> >>)>> >>) }

RawValues ==
    { EmptyDict,
      PyDict(<< <<"next_steps", PyDict(<< <<"value", PyStr("Send deck")>> >>)>> >>),
      PyDict(<< <<"summary", PyDict(<< <<"title", PyStr("Raw summary")>>,
                                        <<"value", PyStr("Unreviewed")>> >>)>>,
                <<"score", PyInt(7)>> >>) }

SummaryAttrs ==
    { PyDict(u \o t \o c \o p) :
          u \in Opt("uuid", {PyStr("uuid-1")}),
          t \in Opt("title", {PyStr("Demo")}),
          c \in Opt("createdAt", CreatedValues),
          p \in Opt("participants", ParticipantLists) }

Summaries ==
    { PyDict(i \o a) : i \in Opt("id", {PyStr("top-1")}), a \in Opt("attributes", SummaryAttrs) }

Metas ==
    { EmptyDict,
      PyDict(<< <<"totalRecords", PyInt(57)>>, <<"pageNumber", PyInt(2)>>, <<"pageCount", PyInt(3)>> >>),
      PyDict(<< <<"pageCount", PyInt(3)>> >>),
      PyDict(<< <<"pageCount", PyInt(1)>> >>) }

SearchResults ==
    { PyDict(d \o m) :
          d \in Opt("data", {PyNone, EmptyList} \cup { PyList(<<c>>) : c \in Summaries }
                                \cup { PyList(<<GoodConv, c>>) : c \in {GoodConv, EpochConv} }),
          m \in Opt("meta", Metas) }

DetailAttrs ==
    { PyDict(u \o c \o v \o p \o t \o ci \o ri) :
          u \in Opt("uuid", {PyStr("uuid-1")}),
          c \in Opt("createdAt", {PyInt(1705314600), PyStr("2024-01-15T10:30:00Z"),
                                  PyStr("not-a-date")}),
          v \in Opt("videoStatus", {PyStr("ready")}),
          p \in Opt("participants", { PyList(<< Part(1),
                        PyDict(<< <<"email", PyStr("solo@example.com")>> >>) >>) }),
          t \in Opt("transcript", { PyStr("A: Hi"),
                        PyList(<< PyDict(<< <<"speaker", PyDict(<< <<"name", PyStr("A")>> >>)>>,
                                            <<"words", PyList(<<Word("Hi")>>)>> >>) >>) }),
          ci \in Opt("confirmedExtractedIntelligence", ConfirmedValues),
          ri \in Opt("extractedIntelligence", RawValues) }

Details ==
    { PyDict(i \o a) : i \in Opt("id", {PyStr("top-1")}), a \in Opt("attributes", DetailAttrs) }
        \cup { PyDict(i \o << <<"data", PyDict(<< <<"id", PyStr("nested-1")>>, <<"attributes", a>> >>)>> >>) :
                  i \in Opt("id", {PyStr("top-1")}), a \in DetailAttrs }

FormatInputs == SearchResults \cup Details

\* `lines` as it stood at the join, none if the formatter raised before it
LinesOrNone(lines) == IF lines.raised THEN <<>> ELSE lines.value

ApplyFormatSearchResults ==
    /\ fm_pc = "input"
    /\ fm_lines' = LinesOrNone(SearchLines(fm_in))
    /\ fm_out' = format_search_results(fm_in)
    /\ fm_pc' = "search"
    /\ UNCHANGED <<fm_in, trVars, environ, heapVars, srvVars, scVars>>

ApplyFormatConversation ==
    /\ fm_pc = "input"
    /\ fm_lines' = LinesOrNone(ConversationLines(fm_in))
    /\ fm_out' = format_conversation(fm_in)
    /\ fm_pc' = "conversation"
    /\ UNCHANGED <<fm_in, trVars, environ, heapVars, srvVars, scVars>>

----------------------------------------------------------------------------
(* Specifications. *)

TrOff == tr_in = PyNone /\ tr_pc = "off" /\ tr_lines = <<>> /\ tr_out = ""

FmOff == fm_in = PyNone /\ fm_pc = "off" /\ fm_lines = <<>> /\ fm_out = Ok("")

HeapEmpty == clients = <<>> /\ conns = <<>> /\ requests = <<>>

SrvIdle ==
    /\ _client = 0
    /\ pc = "idle"
    /\ name = ""
    /\ arguments = EmptyDict
    /\ result = PyNone
    /\ exc = <<>>
    /\ returned = <<>>
    /\ escaped = <<>>
    /\ attempts = 0
    /\ calls = 0

ScOff == sc_pc = "off" /\ sc_key = PyNone /\ sc_client = 0 /\ sc_exc = <<>>

\* The server process: the module is loaded, no tool called yet.
Init == environ \in Environs /\ HeapEmpty /\ SrvIdle /\ TrOff /\ FmOff /\ ScOff

Next ==
    \/ \E n \in ToolNames, args \in ArgumentBags : Invoke(n, args)
    \/ CallGetClient
    \/ CallSearch
    \/ CallListRecent
    \/ CallGetConversation
    \/ CallGetConversationNoId
    \/ UnknownTool
    \/ FormatResult
    \/ HandleException
    \/ Return

Spec == Init /\ [][Next]_vars

\* format_transcript applied to one transcript.
InitTranscript ==
    /\ tr_in \in Transcripts
    /\ tr_pc = "input" /\ tr_lines = <<>> /\ tr_out = ""
    /\ environ = EmptyDict /\ HeapEmpty /\ SrvIdle /\ FmOff /\ ScOff

NextTranscript == ApplyFormatTranscript

SpecTranscript == InitTranscript /\ [][NextTranscript]_vars

\* The two result formatters applied to one result.
InitFormat ==
    /\ fm_in \in FormatInputs
    /\ fm_pc = "input" /\ fm_lines = <<>> /\ fm_out = Ok("")
    /\ environ = EmptyDict /\ HeapEmpty /\ SrvIdle /\ TrOff /\ ScOff

NextFormat == ApplyFormatSearchResults \/ ApplyFormatConversation

SpecFormat == InitFormat /\ [][NextFormat]_vars

\* One with block around an AttentionClient.
InitScope ==
    /\ environ \in Environs
    /\ sc_key \in ApiKeys
    /\ sc_pc = "start" /\ sc_client = 0 /\ sc_exc = <<>>
    /\ HeapEmpty /\ SrvIdle /\ TrOff /\ FmOff

NextScope ==
    \/ ScopeOpen
    \/ \E m \in ScopeMethods : ScopeRequestOk(m)
    \/ \E m \in ScopeMethods : ScopeRequestRaises(m)
    \/ ScopeExit

SpecScope == InitScope /\ [][NextScope]_vars

----------------------------------------------------------------------------
(* Properties of format_transcript (SpecTranscript). *)

\* The segments of a list that have text left after trimming.
Kept(segs) == SelectSeq(segs, LAMBDA seg : SegmentText(seg) # "")

\* The last index of the run of equal speaker names that starts at i.
RunEnd(k, i) ==
    CHOOSE j \in i..Len(k) :
        /\ \A m \in i..j : SpeakerName(k[m]) = SpeakerName(k[i])
        /\ j < Len(k) => SpeakerName(k[j + 1]) # SpeakerName(k[i])

\* The maximal runs of equal speaker names, in input order.
RECURSIVE RunsFrom(_, _)
RunsFrom(k, i) ==
    IF i > Len(k) THEN <<>>
    ELSE <<[speaker |-> SpeakerName(k[i]),
            texts |-> [t \in 1..(RunEnd(k, i) - i + 1) |-> SegmentText(k[i + t - 1])]]>>
         \o RunsFrom(k, RunEnd(k, i) + 1)

\* One turn per run, a blank line between turns.
RunsText(runs) ==
    JoinStr([i \in 1..Len(runs) |->
                "**" \o PyFormat(runs[i].speaker) \o ":** " \o JoinStr(runs[i].texts, " ")],
            "\n\n")

RECURSIVE AllTexts(_)
AllTexts(turns) == IF turns = <<>> THEN <<>> ELSE Head(turns).texts \o AllTexts(Tail(turns))

\* C1: on a list of segments, the segments with no text after trimming are
\* skipped, and every maximal run of kept segments with the same resolved
\* speaker name is rendered as exactly one turn "**speaker:** texts joined by
\* one space", the turns in input order with a blank line between them.
C1_RunsBecomeTurns ==
    (tr_pc = "done" /\ tr_in.py = "list" /\ Kept(tr_in.elems) # <<>>)
        => tr_out = RunsText(RunsFrom(Kept(tr_in.elems), 1))

\* C10: on a list of segments no spoken text is lost: the texts of the turns
\* are the texts of the kept segments, each once and in order; the
\* placeholder is returned only when no segment has text; and no two
\* adjacent turns carry the same speaker.
C10_NoTextLost ==
    (tr_pc = "done" /\ tr_in.py = "list") =>
        /\ AllTexts(tr_lines) = [i \in 1..Len(Kept(tr_in.elems)) |->
                                    SegmentText(Kept(tr_in.elems)[i])]
        /\ tr_out = NoTranscript <=> Kept(tr_in.elems) = <<>>
        /\ \A i \in 1..(Len(tr_lines) - 1) : tr_lines[i].speaker # tr_lines[i + 1].speaker

----------------------------------------------------------------------------
(* Properties of the dispatcher (Spec). *)

HasCredential == Truthy(Get(environ, "ATTENTION_API_KEY", PyNone))

\* C2: call_tool never lets an exception out: every invocation ends with one
\* text payload, and when an exception was raised on the way (by get_client,
\* the client call or the formatter) that payload is "Error: " followed by
\* the exception's message.
C2_EveryCallReturnsText ==
    /\ escaped = <<>>
    /\ pc = "returned" =>
          /\ Len(returned) = 1
          /\ returned[1].type = "text"
          /\ exc # <<>> => returned[1].text = "Error: " \o exc[1].msg

\* A formatter raised and the dispatcher turned it into text.
C2_Witness ==
    /\ pc = "returned"
    /\ exc # <<>>
    /\ exc[1].type = "AttributeError"
    /\ result # PyNone

\* C3: with no credential available, AttentionClient() fails with the
\* configuration error before any httpx.Client exists; every invocation made
\* then issues no request, leaves the global unset, and so each invocation
\* calls the constructor again.
C3_NoCredentialNoNetwork ==
    ~HasCredential =>
        /\ conns = <<>>
        /\ clients = <<>>
        /\ requests = <<>>
        /\ _client = 0
        /\ attempts = IF pc = "get_client" THEN calls - 1 ELSE calls
        /\ exc # <<>> => exc[1] = Exc("ValueError", "ATTENTION_API_KEY must be set")
        /\ pc \in {"returned", "idle"} /\ calls > 0 =>
              returned = <<TextContent("Error: ATTENTION_API_KEY must be set")>>

\* A second invocation failed the same way as the first.
C3_Witness ==
    /\ ~HasCredential
    /\ calls >= 2
    /\ attempts >= 2
    /\ pc = "returned"

\* C4: the dispatcher's client is made by the first invocation and reused by
\* every later one: at most one AttentionClient is ever constructed, it is
\* never closed, every request goes through it, and once the global is set it
\* never changes.
C4_OneClientReused ==
    /\ [](/\ Len(clients) <= 1
          /\ Len(conns) <= 1
          /\ \A c \in 1..Len(conns) : conns[c] = "open"
          /\ \A r \in 1..Len(requests) : _client # 0 /\ requests[r].conn = clients[_client].conn
          /\ (HasCredential /\ calls > 0 /\ pc # "get_client") => _client = 1)
    /\ [][_client # 0 => _client' = _client]_vars

\* Two invocations have each sent a request through the one client.
C4_Witness ==
    /\ calls >= 2
    /\ Len(requests) >= 2
    /\ Len(clients) = 1
    /\ _client = 1

----------------------------------------------------------------------------
(* Properties of the result formatters (SpecFormat). *)

\* The result holds exactly one summary, a dict, whose participants join.
OneSummary ==
    /\ Has(fm_in, "data")
    /\ Get(fm_in, "data", EmptyList).py = "list"
    /\ Len(Get(fm_in, "data", EmptyList).elems) = 1
    /\ Get(fm_in, "data", EmptyList).elems[1].py = "dict"
    /\ ~ParticipantStr(Get(Get(Get(fm_in, "data", EmptyList).elems[1], "attributes", EmptyDict),
                           "participants", EmptyList).elems).raised

TheSummary == Get(fm_in, "data", EmptyList).elems[1]

\* The attributes format_conversation reads, when it finds some.
TheAttrs == ConvAttrs(fm_in).value

\* What the date rule promises for a createdAt value.
PromisedDate(created) ==
    IF created.py = "str" /\ created.s # "" /\ IsIso(ReplaceZ(Chars(created.s)))
    THEN Strftime(ParseIso(ReplaceZ(Chars(created.s))))
    ELSE PyFormat(created)

\* C5: date formatting never raises in either formatter: a createdAt that
\* parses as ISO-8601 is shown as YYYY-MM-DD HH:MM, any other value is shown
\* unchanged.
C5_DateNeverRaises ==
    /\ (fm_pc = "search" /\ OneSummary) =>
          /\ ~fm_out.raised
          /\ fm_lines[4] = "  Date: " \o PromisedDate(
                 Get(Get(TheSummary, "attributes", EmptyDict), "createdAt", PyStr("")))
    /\ (fm_pc = "conversation" /\ ~ConvAttrs(fm_in).raised) =>
          /\ ~fm_out.raised
          /\ fm_lines[4] = "**Date:** " \o PromisedDate(Get(TheAttrs, "createdAt", PyStr("")))

\* top-level id, then attributes.uuid, then "unknown"
IdChain(top, attrs) ==
    IF Has(top, "id") THEN Get(top, "id", PyNone)
    ELSE IF Has(attrs, "uuid") THEN Get(attrs, "uuid", PyNone)
    ELSE PyStr("unknown")

\* C6: both formatters display the top-level id when there is one, else
\* attributes.uuid, else "unknown".
C6_IdFallbackChain ==
    /\ (fm_pc = "search" /\ OneSummary /\ ~fm_out.raised) =>
          fm_lines[3] = "  ID: " \o PyFormat(IdChain(TheSummary,
                                                     Get(TheSummary, "attributes", EmptyDict)))
    /\ (fm_pc = "conversation" /\ ~fm_out.raised) =>
          fm_lines[3] = "**ID:** " \o PyFormat(IdChain(fm_in, TheAttrs))

\* The items of a mapping, none for an absent, null or empty one.
ItemsOf(m) == IF m.py = "dict" THEN m.items ELSE <<>>

Confirmed == Get(TheAttrs, "confirmedExtractedIntelligence", EmptyDict)

Raw == Get(TheAttrs, "extractedIntelligence", EmptyDict)

Index(lines, line) == CHOOSE i \in 1..Len(lines) : lines[i] = line

\* The lines between the section's heading and the Transcript heading.
ShownIntel(lines) ==
    IF \E i \in 1..Len(lines) : lines[i] = "## Extracted Intelligence"
    THEN SubSeq(lines, Index(lines, "## Extracted Intelligence") + 1,
                Index(lines, "## Transcript") - 2)
    ELSE <<>>

HasIntelSection(lines) == \E i \in 1..Len(lines) : lines[i] = "## Extracted Intelligence"

\* An entry of the mapping is rendered among the lines shown.
SomeEntryShown(items, shown) ==
    \E i \in 1..Len(items) :
        /\ IntelEntryLines(items[i][1], items[i][2]) # <<>>
        /\ \E j \in 1..Len(shown) : shown[j] = IntelEntryLines(items[i][1], items[i][2])[1]

\* C7 as stated: when both mappings are present only the confirmed one is
\* rendered, the raw one only when there is no confirmed one, and an empty
\* chosen mapping gives no section.
C7_ConfirmedWheneverPresent ==
    (fm_pc = "conversation" /\ ~fm_out.raised) =>
        LET chosen == IF Has(TheAttrs, "confirmedExtractedIntelligence")
                      THEN ItemsOf(Confirmed) ELSE ItemsOf(Raw)
        IN /\ ShownIntel(fm_lines) = IntelLines(chosen)
           /\ chosen = <<>> => ~HasIntelSection(fm_lines)

\* C7 as amended: the confirmed mapping is rendered alone when it is present
\* and not empty; the raw mapping is rendered alone when the confirmed one is
\* absent, null or empty; the two are never merged, and an empty chosen
\* mapping gives no section.
C7_NonEmptyConfirmedElseRaw ==
    (fm_pc = "conversation" /\ ~fm_out.raised) =>
        LET chosen == IF ItemsOf(Confirmed) # <<>> THEN ItemsOf(Confirmed) ELSE ItemsOf(Raw)
            other == IF ItemsOf(Confirmed) # <<>> THEN ItemsOf(Raw) ELSE ItemsOf(Confirmed)
        IN /\ ShownIntel(fm_lines) = IntelLines(chosen)
           /\ ~SomeEntryShown(other, ShownIntel(fm_lines))
           /\ chosen = <<>> => ~HasIntelSection(fm_lines)

\* Both mappings hold entries and the section shows the confirmed ones.
C7_Witness ==
    /\ fm_pc = "conversation"
    /\ ~fm_out.raised
    /\ ItemsOf(Confirmed) # <<>>
    /\ ItemsOf(Raw) # <<>>
    /\ HasIntelSection(fm_lines)
    /\ SomeEntryShown(ItemsOf(Confirmed), ShownIntel(fm_lines))

\* C8: a result whose data is empty or absent formats to exactly
\* "No conversations found.", whatever meta holds.
C8_EmptyDataIsTerminal ==
    (fm_pc = "search" /\ (~Has(fm_in, "data")
                            \/ Get(fm_in, "data", EmptyList) \in {EmptyList, PyNone, EmptyDict})) =>
        /\ fm_out = Ok("No conversations found.")
        /\ fm_lines = <<"No conversations found.">>

\* An empty page of a paged result has been formatted.
C8_Witness ==
    /\ fm_pc = "search"
    /\ Get(fm_in, "data", PyNone) = EmptyList
    /\ Get(Get(fm_in, "meta", EmptyDict), "pageCount", PyInt(1)).n > 1
    /\ fm_out = Ok("No conversations found.")

----------------------------------------------------------------------------
(* Properties of the context manager (SpecScope). *)

\* C9: the client's connection is made once, at construction, and a with
\* block around the client leaves it closed however the block ends, by
\* running off its end or by an exception a request raised; inside the block
\* it is open.
C9_ScopeClosesOnEveryExit ==
    /\ sc_pc = "left" => conns[clients[sc_client].conn] = "closed"
    /\ sc_pc \in {"body", "raising"} => conns[clients[sc_client].conn] = "open"
    /\ sc_pc \in {"body", "raising", "left"} => Len(conns) = 1 /\ Len(clients) = 1
    /\ sc_pc \in {"start", "failed"} => conns = <<>> /\ requests = <<>>
    /\ \A r \in 1..Len(requests) : requests[r].conn = clients[sc_client].conn

\* The block was left by an exception a request raised.
C9_Witness ==
    /\ sc_pc = "left"
    /\ sc_exc # <<>>
    /\ Len(requests) >= 1

====
